---- MODULE Spec2Model ----
(***************************************************************************)
(* diaspy.models: Aspect, Notification, Conversation, Comment, Comments    *)
(* and Post as thin proxies over an injected connection.                   *)
(*                                                                         *)
(* The client holds one model object at a time (the classes share nothing  *)
(* but the connection).  Every operation is one action: it issues its      *)
(* requests on the connection, receives the responses the pod chooses, and *)
(* returns or raises.  `sent`/`recv` are the requests issued and responses *)
(* received by the most recent operation, `call` names that operation and  *)
(* its argument, `raised` the exception it ended with ("none" when it      *)
(* returned) and `returned` its return value.                              *)
(***************************************************************************)
EXTENDS Integers, Sequences, FiniteSets, TLC

VARIABLES obj, post, cmts, notif, aspect, user, conv,
          sent, recv, call, raised, returned

vars == <<obj, post, cmts, notif, aspect, user, conv,
          sent, recv, call, raised, returned>>

---------------------------------------------------------------------------
(* Bounds of the model. *)

\* longest list of raw comments / Comment objects
MaxComments == 2
\* longest aspect-membership list of a user
MaxMemberships == 2
\* longest note_html, counted in fragments
MaxFragments == 3

\* numeric ids (of posts, likes, notifications, conversations)
Ids == {1, 2}

\* HTTP status codes the pod answers with
Status == {200, 201, 204, 302, 400, 404, 500}

\* str(n) / '{}'.format(n) for the small numbers of the model
Str(n) == <<"0", "1", "2", "3", "4", "5", "6", "7", "8", "9">>[n + 1]

\* repr(connection): the CSRF token of the session
Token == "repr(connection)"

\* Python's None where a string is expected
None == "None"

---------------------------------------------------------------------------
(* The connection collaborator: a request as the call site states it. *)

Request(verb, url, tokenFrom, data, headers, params) ==
    [verb |-> verb, url |-> url, tokenFrom |-> tokenFrom,
     data |-> data, headers |-> headers, params |-> params]

\* connection.get(url)
Get(url) == Request("GET", url, None, {}, {}, {})

\* what an operation hands back: None, or a value
NoResult == [kind |-> "None"]
Value(kind, v) == [kind |-> kind, val |-> v]

\* the outcome of running (part of) a method on `self`
Out(self, exc, ret, reqs, resps) ==
    [self |-> self, raised |-> exc, returned |-> ret, sent |-> reqs, recv |-> resps]

Skip(self) == Out(self, "none", NoResult, <<>>, <<>>)

\* statement sequencing: b runs only when a did not raise
AndThen(a, b) ==
    IF a.raised # "none" THEN a
    ELSE Out(b.self, b.raised, b.returned, a.sent \o b.sent, a.recv \o b.recv)

\* the pod answers only what it is asked: one of R when the request is made,
\* and nothing to choose from otherwise
Unasked(R) == CHOOSE r \in R : TRUE
Replies(R, asked) == IF asked THEN R ELSE {Unasked(R)}

\* a response whose body the caller does not read
StatusOnly == {[status |-> s, body |-> None] : s \in Status}

---------------------------------------------------------------------------
(* Comment and Comments *)

\* raw JSON of one comment
RawComment(i) == [id |-> i, guid |-> "c0ffee", text |-> "hi"]
RawComments == {RawComment(i) : i \in 1..MaxComments}

\* all sequences over S of length at most n
RECURSIVE SeqsUpTo(_, _)
SeqsUpTo(S, n) ==
    IF n = 0 THEN {<<>>}
    ELSE LET shorter == SeqsUpTo(S, n - 1)
         IN  shorter \cup {Append(s, x) : s \in {t \in shorter : Len(t) = n - 1}, x \in S}

\* lists of raw JSON comments, in the order the pod gives them; a pod lists a
\* comment once
RawCommentLists ==
    {l \in SeqsUpTo(RawComments, MaxComments) :
        \A i, j \in 1..Len(l) : i # j => l[i] # l[j]}

\* Comment.__init__
Comment(data) == [_data |-> data, id |-> data.id, guid |-> data.guid]

\* [Comment(c) for c in json]
CommentList(json) == [i \in 1..Len(json) |-> Comment(json[i])]

\* Comments.__init__: the backing store is None or the given list
Comments(comments) == [_comments |-> comments]
NoneList == [none |-> TRUE, list |-> <<>>]
List(l) == [none |-> FALSE, list |-> l]

\* truth value of a list-or-None
Truthy(c) == ~c.none /\ Len(c.list) > 0

\* Comments.__iter__: the Comment objects yielded, in order
CommentsIter(self) == IF Truthy(self._comments) THEN self._comments.list ELSE <<>>

\* Comments.__len__: falls off the end (returns None) when the store is falsy
CommentsLen(self) ==
    IF Truthy(self._comments)
    THEN Value("int", Len(self._comments.list))
    ELSE NoResult

\* Comments.__bool__
CommentsBool(self) == Truthy(self._comments)

\* Comments.add; `comment` is a Comment or NoResult (None)
CommentsAddCreates(self, comment) ==
    IF comment # NoResult
    THEN Comments(List(Append(self._comments.list, comment)))
    ELSE self
CommentsAdd(self, comment) ==
    IF comment # NoResult /\ Truthy(self._comments)
    THEN Comments(List(Append(self._comments.list, comment)))
    ELSE self

\* Comments.set
CommentsSet(self, comments) ==
    IF Truthy(comments) THEN Comments(comments) ELSE self

\* Comments.set_json
CommentsSetJson(self, json_comments) ==
    IF Truthy(json_comments)
    THEN Comments(List(CommentList(json_comments.list)))
    ELSE self

---------------------------------------------------------------------------
(* Post *)

Guids == {"a1f"}

\* the JSON of a post, as the pod serves it: interactions.comments_count,
\* interactions.comments (inlined), interactions.likes, poll.poll_id, author.id
LikeLists == SeqsUpTo(Ids, 1)
InlineComments == SeqsUpTo({RawComment(1)}, 1)
Payloads ==
    [id : Ids, guid : Guids, comments_count : {0, MaxComments},
     comments : InlineComments, likes : LikeLists, poll_id : {1}, author_id : {1}]

\* {} : the data of a post nothing was fetched for
EmptyData ==
    [id |-> 0, guid |-> "", comments_count |-> 0, comments |-> <<>>,
     likes |-> <<>>, poll_id |-> 0, author_id |-> 0]

\* what the pod answers to GET posts/{x}.json and GET posts/{n}/comments.json
DataResponses ==
    {[status |-> 200, body |-> d] : d \in Payloads}
        \cup {[status |-> s, body |-> EmptyData] : s \in Status \ {200}}
CommentsResponses ==
    {[status |-> 200, body |-> l] : l \in RawCommentLists}
        \cup {[status |-> s, body |-> <<>>] : s \in Status \ {200}}

NoPost == [id |-> 0, guid |-> "", _data |-> EmptyData, comments |-> Comments(NoneList)]

\* data / header fields of the call sites
AuthenticityToken == <<"authenticity_token", Token>>
XCsrfToken == <<"x-csrf-token", Token>>
AcceptJson == <<"accept", "application/json">>
ContentJson == <<"content-type", "application/json">>

\* the requests of the two fetches
IsDataGet(req) == req.verb = "GET" /\ Len(req.url) = 3 /\ req.url[3] = ".json"
    /\ req.url[1] = "posts/"
IsCommentsGet(req) == req.verb = "GET" /\ Len(req.url) = 3 /\ req.url[3] = "/comments.json"
AsksData(o) == \E i \in 1..Len(o.sent) : IsDataGet(o.sent[i])
AsksComments(o) == \E i \in 1..Len(o.sent) : IsCommentsGet(o.sent[i])

\* Post._fetchdata: which of id / guid names the post in the URL.  The guid
\* is rendered as given, the id in decimal.
FetchTargetIdFirst(self) == IF self.id # 0 THEN Str(self.id) ELSE self.guid
FetchTarget(self) == IF self.guid # "" THEN self.guid ELSE Str(self.id)

\* Post._fetchdata
PostFetchdata(self, r) ==
    LET req == Get(<<"posts/", FetchTarget(self), ".json">>)
    IN  IF r.status # 200
        THEN Out(self, "PostError", NoResult, <<req>>, <<r>>)
        ELSE Out([self EXCEPT !._data = r.body], "none",
                 Value("str", r.body.guid), <<req>>, <<r>>)

\* Post._fetchcomments: the id in the comments URL
CommentsTargetGuid(self) == IF self.id # 0 THEN Str(self.id) ELSE self.guid
CommentsTarget(self) == Str(self._data.id)

\* Post._fetchcomments
PostFetchcommentsAlways(self, r) ==
    LET req == Get(<<"posts/", CommentsTarget(self), "/comments.json">>)
    IN  IF r.status # 200
        THEN Out(self, "PostError", NoResult, <<req>>, <<r>>)
        ELSE Out([self EXCEPT !.comments =
                      CommentsSet(@, List(CommentList(r.body)))],
                 "none", NoResult, <<req>>, <<r>>)
PostFetchcomments(self, r) ==
    IF self._data.comments_count # 0
    THEN LET req == Get(<<"posts/", CommentsTarget(self), "/comments.json">>)
         IN  IF r.status # 200
             THEN Out(self, "PostError", NoResult, <<req>>, <<r>>)
             ELSE Out([self EXCEPT !.comments =
                           CommentsSet(@, List(CommentList(r.body)))],
                      "none", NoResult, <<req>>, <<r>>)
    ELSE Skip(self)

\* Post.__init__ past the TypeError check; post_data is EmptyData for None
PostInit(id, guid, fetch, comments, post_data, r1, r2) ==
    LET s0 == [id |-> id, guid |-> guid, _data |-> post_data,
               comments |-> Comments(NoneList)]
        a  == IF fetch THEN PostFetchdata(s0, r1) ELSE Skip(s0)
        b  == AndThen(a, IF a.self._data = EmptyData
                         THEN PostFetchdata(a.self, r1) ELSE Skip(a.self))
        c  == AndThen(b, IF comments
                         THEN PostFetchcomments(b.self, r2)
                         ELSE Skip([b.self EXCEPT !.comments =
                                 CommentsSetJson(@, List(b.self._data.comments))]))
    IN  Out(c.self, c.raised, NoResult, c.sent, c.recv)

\* Post.update
PostUpdate(self, r1, r2) ==
    LET a == PostFetchdata(self, r1)
        b == AndThen(a, PostFetchcomments(a.self, r2))
    IN  Out(b.self, b.raised, NoResult, b.sent, b.recv)

\* Post.fetch
PostFetch(self, comments, r1, r2) ==
    LET a == PostFetchdata(self, r1)
        b == AndThen(a, IF comments THEN PostFetchcomments(a.self, r2)
                        ELSE Skip(a.self))
    IN  Out(b.self, b.raised, Value("Post", b.self), b.sent, b.recv)

\* Post.data
PostData(self, data) ==
    Out([self EXCEPT !._data = data], "none", Value("json", data), <<>>, <<>>)

\* the pod's answer to POST posts/{id}/likes: the like object (its id; 0 is
\* a falsy JSON value such as {} or null)
LikeResponses ==
    {[status |-> 201, body |-> l] : l \in {0} \cup Ids}
        \cup {[status |-> s, body |-> 0] : s \in Status \ {201}}

\* the pod's answer to POST posts/{id}/comments: the new comment
CommentResponses ==
    {[status |-> 201, body |-> c] : c \in RawComments}
        \cup {[status |-> s, body |-> RawComment(0)] : s \in Status \ {201}}

\* one request whose only effect is its status check: `exc` unless `ok`
OneShot(self, req, r, ok, exc) ==
    IF r.status # ok
    THEN Out(self, exc, NoResult, <<req>>, <<r>>)
    ELSE Out(self, "none", NoResult, <<req>>, <<r>>)

\* Post.like
PostLikeAppends(self, r) ==
    LET req == Request("POST", <<"posts/", Str(self.id), "/likes">>, None,
                       {AuthenticityToken}, {AcceptJson}, {})
    IN  IF r.status # 201
        THEN Out(self, "PostError", NoResult, <<req>>, <<r>>)
        ELSE Out(IF r.body # 0
                 THEN [self EXCEPT !._data.likes = Append(@, r.body)] ELSE self,
                 "none", Value("json", r.body), <<req>>, <<r>>)
PostLike(self, r) ==
    LET req == Request("POST", <<"posts/", Str(self.id), "/likes">>, None,
                       {AuthenticityToken}, {AcceptJson}, {})
    IN  IF r.status # 201
        THEN Out(self, "PostError", NoResult, <<req>>, <<r>>)
        ELSE Out(IF r.body # 0 THEN [self EXCEPT !._data.likes = <<r.body>>] ELSE self,
                 "none", Value("json", r.body), <<req>>, <<r>>)

\* Post.reshare
PostReshare(self, r) ==
    LET req == Request("POST", <<"reshares">>, None,
                       {<<"root_guid", self._data.guid>>, AuthenticityToken},
                       {AcceptJson}, {})
        o   == OneShot(self, req, r, 201, "Exception")
    IN  IF o.raised = "none" THEN [o EXCEPT !.returned = Value("json", r.body)] ELSE o

\* Post.comment
PostComment(self, text, r) ==
    LET req == Request("POST", <<"posts/", Str(self.id), "/comments">>, None,
                       {<<"text", text>>, AuthenticityToken}, {AcceptJson}, {})
        o   == OneShot(self, req, r, 201, "Exception")
    IN  IF o.raised = "none"
        THEN [o EXCEPT !.returned = Value("Comment", Comment(r.body))] ELSE o

\* Post.vote_poll
PostVotePoll(self, poll_answer_id, r) ==
    LET req == Request("POST", <<"posts/", Str(self.id), "/poll_participations">>, None,
                       {<<"poll_answer_id", Str(poll_answer_id)>>,
                        <<"poll_id", Str(self._data.poll_id)>>,
                        <<"post_id", Str(self.id)>>, AuthenticityToken},
                       {AcceptJson}, {})
        o   == OneShot(self, req, r, 201, "Exception")
    IN  IF o.raised = "none" THEN [o EXCEPT !.returned = Value("json", r.body)] ELSE o

\* Post.hide
PostHide(self, r) ==
    OneShot(self,
            Request("PUT", <<"share_visibilities/42">>, None, {}, {XCsrfToken},
                    {<<"post_id", Str(self.id)>>}),
            r, 200, "Exception")

\* Post.mute
PostMute(self, r) ==
    OneShot(self,
            Request("POST", <<"blocks">>, None,
                    {<<"block.person_id", Str(self._data.author_id)>>},
                    {ContentJson, XCsrfToken}, {}),
            r, 204, "Exception")

\* Post.subscribe
PostSubscribe(self, r) ==
    OneShot(self,
            Request("POST", <<"posts/", Str(self.id), "/participation">>, None,
                    {}, {XCsrfToken}, {}),
            r, 201, "Exception")

\* Post.unsubscribe
PostUnsubscribe(self, r) ==
    OneShot(self,
            Request("POST", <<"posts/", Str(self.id), "/participation">>, None,
                    {<<"_method", "delete">>}, {XCsrfToken}, {}),
            r, 200, "Exception")

\* Post.delete
PostDelete(self, r) ==
    OneShot(self,
            Request("DELETE", <<"posts/", Str(self.id)>>, None,
                    {AuthenticityToken}, {AcceptJson}, {}),
            r, 204, "PostError")

\* Post.delete_comment
PostDeleteComment(self, comment_id, r) ==
    OneShot(self,
            Request("DELETE", <<"posts/", Str(self.id), "/comments/", Str(comment_id)>>,
                    None, {AuthenticityToken}, {AcceptJson}, {}),
            r, 204, "PostError")

\* Post.delete_like: likes[0] of an empty list is an IndexError, before any
\* request
PostDeleteLike(self, r) ==
    IF self._data.likes = <<>>
    THEN Out(self, "IndexError", NoResult, <<>>, <<>>)
    ELSE OneShot(self,
                 Request("DELETE", <<"posts/", Str(self.id), "/likes/",
                                     Str(self._data.likes[1])>>,
                         None, {AuthenticityToken}, {}, {}),
                 r, 204, "PostError")

---------------------------------------------------------------------------
(* Conversation *)

Subjects == {"hello", "re: hello"}
ConversationData == [subject : Subjects]
EmptyConversation == [subject |-> None]

\* the pod's answer to GET conversations/{id}.json: {'conversation': {...}}
ConversationResponses ==
    {[status |-> 200, body |-> [conversation |-> d]] : d \in ConversationData}
        \cup {[status |-> s, body |-> [conversation |-> EmptyConversation]] :
                s \in Status \ {200}}

NoConversation == [id |-> 0, _data |-> EmptyConversation]

\* Conversation._fetch
ConversationFetch(self, r) ==
    LET req == Get(<<"conversations/", Str(self.id), ".json">>)
    IN  IF r.status = 200
        THEN Out([self EXCEPT !._data = r.body.conversation], "none", NoResult,
                 <<req>>, <<r>>)
        ELSE Out(self, "ConversationError", NoResult, <<req>>, <<r>>)

\* Conversation.__init__
ConversationInit(id, fetch, r) ==
    LET s0 == [id |-> id, _data |-> EmptyConversation]
    IN  IF fetch THEN ConversationFetch(s0, r) ELSE Skip(s0)

\* Conversation.answer
ConversationAnswer(self, text, r) ==
    LET req == Request("POST", <<"conversations/", Str(self.id), "/messages">>, None,
                       {<<"message[text]", text>>, <<"utf8", "&#x2713;">>,
                        AuthenticityToken},
                       {AcceptJson}, {})
        o   == OneShot(self, req, r, 200, "ConversationError")
    IN  IF o.raised = "none" THEN [o EXCEPT !.returned = Value("json", r.body)] ELSE o

\* Conversation.delete: 404 is the status of a done deletion
ConversationDeleteExpects200(self, r) ==
    OneShot(self,
            Request("DELETE", <<"conversations/", Str(self.id), "/visibility/">>, None,
                    {AuthenticityToken}, {AcceptJson}, {}),
            r, 200, "ConversationError")
ConversationDelete(self, r) ==
    OneShot(self,
            Request("DELETE", <<"conversations/", Str(self.id), "/visibility/">>, None,
                    {AuthenticityToken}, {AcceptJson}, {}),
            r, 404, "ConversationError")

\* Conversation.get_subject: a KeyError on data that was never fetched
ConversationGetSubject(self) ==
    IF self._data = EmptyConversation
    THEN Out(self, "KeyError", NoResult, <<>>, <<>>)
    ELSE Out(self, "none", Value("str", self._data.subject), <<>>, <<>>)

---------------------------------------------------------------------------
(* Notification *)

\* note_html, a sequence of characters, put together from these fragments
PostsRef == <<"/", "p", "o", "s", "t", "s", "/">>
PeopleRef == <<"/", "p", "e", "o", "p", "l", "e", "/">>
ClassEq == <<" ", "c", "l", "a", "s", "s", "=">>
Hovercardable == <<"h", "o", "v", "e", "r", "c", "a", "r", "d", "a", "b", "l", "e">>
HovercardTail == <<"'">> \o ClassEq \o <<"'">> \o Hovercardable
Fragments == {PostsRef, PeopleRef, HovercardTail, <<"7">>, <<"a">>, <<" ">>}

RECURSIVE Flatten(_)
Flatten(fs) == IF fs = <<>> THEN <<>> ELSE Head(fs) \o Flatten(Tail(fs))

NoteHtmls == {Flatten(fs) : fs \in SeqsUpTo(Fragments, MaxFragments)}

DecDigits == {"0", "1", "2", "3", "4", "5", "6", "7", "8", "9"}
HexDigits == DecDigits \cup {"a", "b", "c", "d", "e", "f"}
Quotes == {"\"", "'"}

\* the literal `lit` stands in s at position i
IsLitAt(s, i, lit) ==
    /\ i + Len(lit) - 1 <= Len(s)
    /\ SubSeq(s, i, i + Len(lit) - 1) = lit

\* [0-9a-f]* from position i, greedy: the first position past the run
RECURSIVE HexRunEnd(_, _)
HexRunEnd(s, i) ==
    IF i <= Len(s) /\ s[i] \in HexDigits THEN HexRunEnd(s, i + 1) ELSE i

\* _aboutid_regexp = r'/posts/[0-9a-f]+' matches at position i
AboutMatchAt(s, i) == IsLitAt(s, i, PostsRef) /\ HexRunEnd(s, i + 7) > i + 7

\* _aboutid_regexp.search(s): the leftmost match, None when there is none
AboutSearch(s) ==
    IF \E i \in 1..Len(s) : AboutMatchAt(s, i)
    THEN LET i == CHOOSE k \in 1..Len(s) :
                    AboutMatchAt(s, k) /\ \A j \in 1..(k - 1) : ~AboutMatchAt(s, j)
         IN  [found |-> TRUE, group0 |-> SubSeq(s, i, HexRunEnd(s, i + 7) - 1)]
    ELSE [found |-> FALSE, group0 |-> <<>>]

\* int(text), base 10
DigitValue(c) ==
    CASE c = "0" -> 0 [] c = "1" -> 1 [] c = "2" -> 2 [] c = "3" -> 3 [] c = "4" -> 4
      [] c = "5" -> 5 [] c = "6" -> 6 [] c = "7" -> 7 [] c = "8" -> 8 [] c = "9" -> 9
RECURSIVE DecValue(_)
DecValue(text) ==
    IF text = <<>> THEN 0
    ELSE 10 * DecValue(SubSeq(text, 1, Len(text) - 1)) + DigitValue(text[Len(text)])
IsDecimal(text) == text # <<>> /\ \A i \in 1..Len(text) : text[i] \in DecDigits

\* _who_regexp = r'/people/([0-9a-f]+)["\']{1} class=["\']{1}hovercardable'
\* matches at position i; the hex run is greedy and a quote is no hex digit,
\* so backtracking finds nothing more
WhoGuidEnd(s, i) == HexRunEnd(s, i + 8)
WhoMatchAt(s, i) ==
    LET j == WhoGuidEnd(s, i)
    IN  /\ IsLitAt(s, i, PeopleRef)
        /\ j > i + 8
        /\ j + 8 <= Len(s)
        /\ s[j] \in Quotes
        /\ IsLitAt(s, j + 1, ClassEq)
        /\ s[j + 8] \in Quotes
        /\ IsLitAt(s, j + 9, Hovercardable)

\* _who_regexp.findall(s) from position i on: group 1 of every match, left to
\* right, matches not overlapping
RECURSIVE WhoFindAll(_, _)
WhoFindAll(s, i) ==
    IF i > Len(s) THEN <<>>
    ELSE IF WhoMatchAt(s, i)
         THEN <<SubSeq(s, i + 8, WhoGuidEnd(s, i) - 1)>>
                  \o WhoFindAll(s, WhoGuidEnd(s, i) + 9 + Len(Hovercardable))
         ELSE WhoFindAll(s, i + 1)

NotificationTypes == {"liked", "mentioned"}
NotificationObjects ==
    [id : Ids, unread : BOOLEAN, note_html : NoteHtmls, created_at : {"2014-01-01"}]
NoNotification ==
    [type |-> None, id |-> 0, unread |-> FALSE,
     _data |-> [id |-> 0, unread |-> FALSE, note_html |-> <<>>, created_at |-> None]]

\* the envelope {'type': t, t: {...}}
Envelope(t, o) == ("type" :> Value("str", t)) @@ (t :> o)

\* Notification.__init__
NotificationInit(data) ==
    LET type == data["type"].val
    IN  [type |-> type, _data |-> data[type],
         id |-> data[type].id, unread |-> data[type].unread]

\* Notification.who
NotificationWho(self) ==
    Out(self, "none", Value("list", WhoFindAll(self._data.note_html, 1)), <<>>, <<>>)

\* Notification.about
NotificationAbout(self) ==
    LET about == AboutSearch(self._data.note_html)
        text  == SubSeq(about.group0, 8, Len(about.group0))
    IN  IF ~about.found THEN NotificationWho(self)
        ELSE IF IsDecimal(text)
             THEN Out(self, "none", Value("int", DecValue(text)), <<>>, <<>>)
             ELSE Out(self, "ValueError", NoResult, <<>>, <<>>)

\* Notification.when
NotificationWhen(self) ==
    Out(self, "none", Value("str", self._data.created_at), <<>>, <<>>)

\* json.dumps of a bool
JsonDumpsBool(b) == IF b THEN "true" ELSE "false"

\* Notification.mark: no status check
NotificationMark(self, unread, r) ==
    Out([self EXCEPT !._data.unread = unread], "none", NoResult,
        <<Request("PUT", <<"notifications/", Str(self._data.id)>>, None, {},
                  {XCsrfToken}, {<<"set_unread", JsonDumpsBool(unread)>>})>>,
        <<r>>)

---------------------------------------------------------------------------
(* Aspect, and the User it is handed *)

\* one entry of a user's aspect_memberships: {'id': m, 'aspect': {'id': a}};
\* aspect 0 stands for an entry that names no aspect
AspectIds == {1, 2}
MembershipIds == {1, 2}
Memberships == [id : MembershipIds, aspect : {0} \cup AspectIds]
MembershipLists == SeqsUpTo(Memberships, MaxMemberships)

\* User.data in its two shapes: {'contact': {'aspect_memberships': [...]}}
\* (a User) and {'aspect_memberships': [...]} (a User from Contacts())
UserData(hasContact, ms) ==
    [hasContact |-> hasContact,
     contact_aspect_memberships |-> IF hasContact THEN ms ELSE <<>>,
     aspect_memberships |-> IF hasContact THEN <<>> ELSE ms]
Users == {[data |-> UserData(c, ms)] : c \in BOOLEAN, ms \in MembershipLists}
NoUser == [data |-> UserData(FALSE, <<>>)]

\* diaspy.people.User.aspectMemberships
AspectMemberships(u) ==
    IF u.data.hasContact THEN u.data.contact_aspect_memberships
    ELSE u.data.aspect_memberships

\* list.remove(x): the first element equal to x goes
RemoveFirst(l, x) ==
    IF \E i \in 1..Len(l) : l[i] = x
    THEN LET i == CHOOSE k \in 1..Len(l) : l[k] = x /\ \A j \in 1..(k - 1) : l[j] # x
         IN  SubSeq(l, 1, i - 1) \o SubSeq(l, i + 1, Len(l))
    ELSE l

\* response bodies, as text, and request.json() of them
Bodies == {"", "<html>", "null", "{}", "[]", "{id: 1}"}
JsonValid(text) == text \in {"null", "{}", "[]", "{id: 1}"}
JsonLoads(text) == IF text = "null" THEN NoResult ELSE Value("json", text)
TextResponses == {[status |-> s, body |-> b] : s \in Status, b \in Bodies}
\* the pod's answer to DELETE aspect_memberships/{id}
RemovalResponses == {[status |-> s, body |-> b] : s \in Status, b \in {"", "{}"}}

NoAspect == [id |-> 0, name |-> None, _cached |-> <<>>]

\* Aspect.__init__
AspectInit(id, name) == [id |-> id, name |-> name, _cached |-> <<>>]

\* the pod's answer to GET contacts.json?a_id={id}
ContactsResponses == {[status |-> 200, body |-> l] : l \in SeqsUpTo(Guids, 1)}

\* Aspect.getUsers
AspectGetUsers(self, fetch, r) ==
    IF fetch
    THEN Out([self EXCEPT !._cached = r.body], "none", Value("list", r.body),
             <<Get(<<"contacts.json?a_id=", Str(self.id)>>)>>, <<r>>)
    ELSE Out(self, "none", Value("list", self._cached), <<>>, <<>>)

\* Aspect.removeAspect
AspectRemoveAspect(self, r) ==
    OneShot(self,
            Request("DELETE", <<"aspects/", Str(self.id)>>, "contacts", {}, {}, {}),
            r, 302, "AspectError")

\* Aspect.addUser
AspectAddUser(self, user_id, r) ==
    LET req == Request("POST", <<"aspect_memberships">>, "contacts",
                       {<<"aspect_id", Str(self.id)>>, <<"person_id", Str(user_id)>>},
                       {ContentJson, AcceptJson}, {})
        response == IF JsonValid(r.body) THEN JsonLoads(r.body) ELSE NoResult
    IN  IF r.status = 400
        THEN Out(self, "AspectError: duplicate record", NoResult, <<req>>, <<r>>)
        ELSE IF r.status = 404
        THEN Out(self, "AspectError: user not found", NoResult, <<req>>, <<r>>)
        ELSE IF r.status # 200
        THEN Out(self, "AspectError: wrong status code", NoResult, <<req>>, <<r>>)
        ELSE IF response = NoResult
        THEN Out(self, "CSRFProtectionKickedIn", NoResult, <<req>>, <<r>>)
        ELSE Out(self, "none", response, <<req>>, <<r>>)

\* Aspect.removeUser: the first entry of the user's list that names this
\* aspect (0 when there is none)
MatchedIndex(self, u) ==
    LET ms == AspectMemberships(u)
    IN  IF \E i \in 1..Len(ms) : ms[i].aspect = self.id
        THEN CHOOSE k \in 1..Len(ms) :
                 ms[k].aspect = self.id /\ \A j \in 1..(k - 1) : ms[j].aspect # self.id
        ELSE 0

\* Aspect.removeUser: the user's data with to_remove taken off the local list
RemoveLocalWrongShape(u, to_remove) ==
    [u EXCEPT !.data.aspect_memberships = RemoveFirst(@, to_remove)]
RemoveLocal(u, to_remove) ==
    IF u.data.hasContact
    THEN [u EXCEPT !.data.contact_aspect_memberships = RemoveFirst(@, to_remove)]
    ELSE [u EXCEPT !.data.aspect_memberships = RemoveFirst(@, to_remove)]

\* Aspect.removeUser; the outcome's `self` is the user
AspectRemoveUser(self, u, r) ==
    LET i == MatchedIndex(self, u)
        to_remove == AspectMemberships(u)[i]
        req == Request("DELETE", <<"aspect_memberships/", Str(to_remove.id)>>, None,
                       {}, {}, {})
    IN  IF i = 0
        THEN Out(u, "UserIsNotMemberOfAspect", NoResult, <<>>, <<>>)
        ELSE IF r.status = 404
        THEN Out(u, "AspectError: probably tried too fast", NoResult, <<req>>, <<r>>)
        ELSE IF r.status # 200
        THEN Out(u, "AspectError: cannot remove", NoResult, <<req>>, <<r>>)
        ELSE IF JsonValid(r.body)
        THEN Out(RemoveLocal(u, to_remove), "none", JsonLoads(r.body), <<req>>, <<r>>)
        ELSE Out(RemoveLocal(u, to_remove), "JSONDecodeError", NoResult, <<req>>, <<r>>)

---------------------------------------------------------------------------
(* The client: it constructs one object and calls its methods. *)

Init ==
    /\ obj = "none"
    /\ post = NoPost
    /\ cmts = Comments(NoneList)
    /\ notif = NoNotification
    /\ aspect = NoAspect
    /\ user = NoUser
    /\ conv = NoConversation
    /\ sent = <<>>
    /\ recv = <<>>
    /\ call = [op |-> "none", arg |-> None]
    /\ raised = "none"
    /\ returned = NoResult

\* no call is under way or waiting to be looked at
Idle == call.op = "none"

\* the operation `op(arg)` ended as the outcome o says
Ended(op, arg, o) ==
    /\ call' = [op |-> op, arg |-> arg]
    /\ sent' = o.sent
    /\ recv' = o.recv
    /\ raised' = o.raised
    /\ returned' = o.returned

\* a constructor that raises leaves the client without an object
Constructed(class, o) == obj' = IF o.raised = "none" THEN class ELSE "dead"

(* Post *)

\* Post(id, guid, fetch, comments, post_data)
NewPostOutcome(id, guid, fetch, comments, post_data, r1, r2) ==
    IF ~(guid # "" \/ id # 0)
    THEN Out(NoPost, "TypeError", NoResult, <<>>, <<>>)
    ELSE PostInit(id, guid, fetch, comments, post_data, r1, r2)

NewPost ==
    /\ obj = "none"
    /\ Idle
    /\ \E id \in {0} \cup Ids, guid \in {""} \cup Guids, fetch \in BOOLEAN,
          comments \in BOOLEAN, post_data \in Payloads \cup {EmptyData} :
        \E r1 \in Replies(DataResponses,
                          AsksData(NewPostOutcome(id, guid, fetch, comments, post_data,
                                                  Unasked(DataResponses),
                                                  Unasked(CommentsResponses)))) :
        \E r2 \in Replies(CommentsResponses,
                          AsksComments(NewPostOutcome(id, guid, fetch, comments, post_data,
                                                      r1, Unasked(CommentsResponses)))) :
            LET o == NewPostOutcome(id, guid, fetch, comments, post_data, r1, r2)
            IN  /\ post' = o.self
                /\ Constructed("Post", o)
                /\ Ended("Post", <<id, guid, fetch, comments>>, o)
    /\ UNCHANGED <<cmts, notif, aspect, user, conv>>

\* a method of the post ended as o says
PostEnded(op, arg, o) ==
    /\ post' = o.self
    /\ Ended(op, arg, o)
    /\ UNCHANGED <<obj, cmts, notif, aspect, user, conv>>

Update ==
    /\ obj = "Post"
    /\ Idle
    /\ \E r1 \in DataResponses :
        \E r2 \in Replies(CommentsResponses,
                          AsksComments(PostUpdate(post, r1, Unasked(CommentsResponses)))) :
            PostEnded("update", None, PostUpdate(post, r1, r2))

Fetch ==
    /\ obj = "Post"
    /\ Idle
    /\ \E comments \in BOOLEAN, r1 \in DataResponses :
        \E r2 \in Replies(CommentsResponses,
                          AsksComments(PostFetch(post, comments, r1,
                                                 Unasked(CommentsResponses)))) :
            PostEnded("fetch", comments, PostFetch(post, comments, r1, r2))

Data ==
    /\ obj = "Post"
    /\ Idle
    /\ \E data \in Payloads : PostEnded("data", None, PostData(post, data))

Like ==
    /\ obj = "Post"
    /\ Idle
    /\ \E r \in LikeResponses : PostEnded("like", None, PostLike(post, r))

Reshare ==
    /\ obj = "Post"
    /\ Idle
    /\ \E r \in StatusOnly : PostEnded("reshare", None, PostReshare(post, r))

CommentOn ==
    /\ obj = "Post"
    /\ Idle
    /\ \E r \in CommentResponses : PostEnded("comment", "hi", PostComment(post, "hi", r))

VotePoll ==
    /\ obj = "Post"
    /\ Idle
    /\ \E r \in StatusOnly : PostEnded("vote_poll", 1, PostVotePoll(post, 1, r))

Hide ==
    /\ obj = "Post"
    /\ Idle
    /\ \E r \in StatusOnly : PostEnded("hide", None, PostHide(post, r))

Mute ==
    /\ obj = "Post"
    /\ Idle
    /\ \E r \in StatusOnly : PostEnded("mute", None, PostMute(post, r))

Subscribe ==
    /\ obj = "Post"
    /\ Idle
    /\ \E r \in StatusOnly : PostEnded("subscribe", None, PostSubscribe(post, r))

Unsubscribe ==
    /\ obj = "Post"
    /\ Idle
    /\ \E r \in StatusOnly : PostEnded("unsubscribe", None, PostUnsubscribe(post, r))

Delete ==
    /\ obj = "Post"
    /\ Idle
    /\ \E r \in StatusOnly : PostEnded("delete", None, PostDelete(post, r))

DeleteComment ==
    /\ obj = "Post"
    /\ Idle
    /\ \E r \in StatusOnly :
        PostEnded("delete_comment", 1, PostDeleteComment(post, 1, r))

DeleteLike ==
    /\ obj = "Post"
    /\ Idle
    /\ \E r \in StatusOnly : PostEnded("delete_like", None, PostDeleteLike(post, r))

(* Conversation *)

NewConversation ==
    /\ obj = "none"
    /\ Idle
    /\ \E id \in Ids, fetch \in BOOLEAN, r \in ConversationResponses :
        LET o == ConversationInit(id, fetch, r)
        IN  /\ conv' = o.self
            /\ Constructed("Conversation", o)
            /\ Ended("Conversation", <<id, fetch>>, o)
    /\ UNCHANGED <<post, cmts, notif, aspect, user>>

ConversationEnded(op, arg, o) ==
    /\ conv' = o.self
    /\ Ended(op, arg, o)
    /\ UNCHANGED <<obj, post, cmts, notif, aspect, user>>

Answer ==
    /\ obj = "Conversation"
    /\ Idle
    /\ \E r \in StatusOnly :
        ConversationEnded("answer", "hi", ConversationAnswer(conv, "hi", r))

DeleteConversation ==
    /\ obj = "Conversation"
    /\ Idle
    /\ \E r \in StatusOnly : ConversationEnded("delete", None, ConversationDelete(conv, r))

GetSubject ==
    /\ obj = "Conversation"
    /\ Idle
    /\ ConversationEnded("get_subject", None, ConversationGetSubject(conv))

(* Notification *)

NewNotification ==
    /\ obj = "none"
    /\ Idle
    /\ \E t \in NotificationTypes, o \in NotificationObjects :
        /\ notif' = NotificationInit(Envelope(t, o))
        /\ obj' = "Notification"
        /\ Ended("Notification", None, Skip(notif'))
    /\ UNCHANGED <<post, cmts, aspect, user, conv>>

NotificationEnded(op, arg, o) ==
    /\ notif' = o.self
    /\ Ended(op, arg, o)
    /\ UNCHANGED <<obj, post, cmts, aspect, user, conv>>

About ==
    /\ obj = "Notification"
    /\ Idle
    /\ NotificationEnded("about", None, NotificationAbout(notif))

Who ==
    /\ obj = "Notification"
    /\ Idle
    /\ NotificationEnded("who", None, NotificationWho(notif))

When ==
    /\ obj = "Notification"
    /\ Idle
    /\ NotificationEnded("when", None, NotificationWhen(notif))

Mark ==
    /\ obj = "Notification"
    /\ Idle
    /\ \E unread \in BOOLEAN, r \in StatusOnly :
        NotificationEnded("mark", unread, NotificationMark(notif, unread, r))

(* Aspect *)

NewAspect ==
    /\ obj = "none"
    /\ Idle
    /\ \E id \in AspectIds, u \in Users :
        /\ aspect' = AspectInit(id, "friends")
        /\ user' = u
        /\ obj' = "Aspect"
        /\ Ended("Aspect", id, Skip(aspect'))
    /\ UNCHANGED <<post, cmts, notif, conv>>

AspectEnded(op, arg, o) ==
    /\ aspect' = o.self
    /\ Ended(op, arg, o)
    /\ UNCHANGED <<obj, post, cmts, notif, user, conv>>

GetUsers ==
    /\ obj = "Aspect"
    /\ Idle
    /\ \E fetch \in BOOLEAN, r \in ContactsResponses :
        AspectEnded("getUsers", fetch, AspectGetUsers(aspect, fetch, r))

RemoveAspect ==
    /\ obj = "Aspect"
    /\ Idle
    /\ \E r \in StatusOnly : AspectEnded("removeAspect", None, AspectRemoveAspect(aspect, r))

AddUser ==
    /\ obj = "Aspect"
    /\ Idle
    /\ \E r \in TextResponses : AspectEnded("addUser", 1, AspectAddUser(aspect, 1, r))

RemoveUser ==
    /\ obj = "Aspect"
    /\ Idle
    /\ \E r \in RemovalResponses :
        LET o == AspectRemoveUser(aspect, user, r)
        IN  /\ user' = o.self
            /\ Ended("removeUser", None, o)
    /\ UNCHANGED <<obj, post, cmts, notif, aspect, conv>>

(* Comments *)

CommentLists == {CommentList(l) : l \in RawCommentLists}

NewComments ==
    /\ obj = "none"
    /\ Idle
    /\ \E c \in {NoneList} \cup {List(l) : l \in CommentLists} :
        /\ cmts' = Comments(c)
        /\ obj' = "Comments"
        /\ Ended("Comments", c, Skip(cmts'))
    /\ UNCHANGED <<post, notif, aspect, user, conv>>

CommentsEnded(op, arg, o) ==
    /\ cmts' = o.self
    /\ Ended(op, arg, o)
    /\ UNCHANGED <<obj, post, notif, aspect, user, conv>>

Add ==
    /\ obj = "Comments"
    /\ Idle
    /\ Len(cmts._comments.list) < MaxComments
    /\ \E c \in {NoResult} \cup {Comment(x) : x \in RawComments} :
        CommentsEnded("add", c, Skip(CommentsAdd(cmts, c)))

Set ==
    /\ obj = "Comments"
    /\ Idle
    /\ \E c \in {NoneList} \cup {List(l) : l \in CommentLists} :
        CommentsEnded("set", c, Skip(CommentsSet(cmts, c)))

SetJson ==
    /\ obj = "Comments"
    /\ Idle
    /\ \E j \in {NoneList} \cup {List(l) : l \in RawCommentLists} :
        CommentsEnded("set_json", j, Skip(CommentsSetJson(cmts, j)))

\* the client is done with the outcome of its last call
Return ==
    /\ ~Idle
    /\ call' = [op |-> "none", arg |-> None]
    /\ sent' = <<>>
    /\ recv' = <<>>
    /\ raised' = "none"
    /\ returned' = NoResult
    /\ UNCHANGED <<obj, post, cmts, notif, aspect, user, conv>>

Next ==
    \/ NewPost \/ Update \/ Fetch \/ Data \/ Like \/ Reshare \/ CommentOn
    \/ VotePoll \/ Hide \/ Mute \/ Subscribe \/ Unsubscribe \/ Delete
    \/ DeleteComment \/ DeleteLike
    \/ NewConversation \/ Answer \/ DeleteConversation \/ GetSubject
    \/ NewNotification \/ About \/ Who \/ When \/ Mark
    \/ NewAspect \/ GetUsers \/ RemoveAspect \/ AddUser \/ RemoveUser
    \/ NewComments \/ Add \/ Set \/ SetJson
    \/ Return

Spec == Init /\ [][Next]_vars

---------------------------------------------------------------------------
(* Properties *)

\* the requests of the last operation
Sent == {sent[i] : i \in 1..Len(sent)}

\* C1: a comments GET is issued only for data that reports a nonzero
\* interactions.comments_count: whatever operation ended last (construction
\* with any flags, update(), fetch(comments)), if it sent a GET to
\* posts/{id}/comments.json then the data it had at that point reports a
\* nonzero count.  So while the reported count stays 0 no such GET is issued.
C1_NoCommentsGetForZeroCount ==
    \A req \in Sent : IsCommentsGet(req) => post._data.comments_count # 0

\* update() on a post whose fresh data reports no comments: one GET, the data
C1_Witness ==
    /\ obj = "Post"
    /\ call.op = "update"
    /\ raised = "none"
    /\ post._data.comments_count = 0
    /\ Len(sent) = 1
    /\ IsDataGet(sent[1])

\* C2: a post constructed with a guid only addresses every comments GET, at
\* construction and in update()/fetch(comments=True), to
\* posts/{n}/comments.json with n the id of the post payload it holds, never
\* the guid.
C2_CommentsGetByPayloadId ==
    (post.id = 0 /\ post.guid # "") =>
        \A req \in Sent :
            IsCommentsGet(req) =>
                /\ req.url = <<"posts/", Str(post._data.id), "/comments.json">>
                /\ req.url[2] # post.guid

\* a guid-only post is constructed and fetches its comments
C2_Witness ==
    /\ obj = "Post"
    /\ call.op = "Post"
    /\ post.id = 0
    /\ post.guid # ""
    /\ raised = "none"
    /\ \E req \in Sent : IsCommentsGet(req)
    /\ \E req \in Sent : IsDataGet(req) /\ req.url[2] = post.guid

\* C3: addUser maps its response so: 400 raises the duplicate-membership
\* AspectError, 404 the user-not-found AspectError, any other non-200 the
\* generic AspectError; 200 with a body that is valid JSON returns the parsed
\* body; 200 with an empty body raises CSRFProtectionKickedIn.
C3_AddUserMapping ==
    (obj = "Aspect" /\ call.op = "addUser") =>
        LET r == recv[1]
        IN  /\ Len(sent) = 1
            /\ sent[1].verb = "POST"
            /\ r.status = 400 => raised = "AspectError: duplicate record"
            /\ r.status = 404 => raised = "AspectError: user not found"
            /\ r.status \notin {200, 400, 404} => raised = "AspectError: wrong status code"
            /\ (r.status = 200 /\ JsonValid(r.body)) =>
                    (raised = "none" /\ returned = JsonLoads(r.body))
            /\ (r.status = 200 /\ r.body = "") => raised = "CSRFProtectionKickedIn"

\* C4: after set_json of a list of N raw comments the container has length N
\* and iterates Comment objects of the N items in the input order, whatever
\* it held before.
C4_SetJsonLengthAndOrder ==
    (obj = "Comments" /\ call.op = "set_json" /\ ~call.arg.none) =>
        LET json == call.arg.list
        IN  /\ CommentsLen(cmts) = Value("int", Len(json))
            /\ Len(CommentsIter(cmts)) = Len(json)
            /\ \A i \in 1..Len(json) : CommentsIter(cmts)[i]._data = json[i]

\* C5: after mark(u) the notification's `unread` attribute and the 'unread'
\* of its cached payload both are u.
C5_MarkSetsUnread ==
    (obj = "Notification" /\ call.op = "mark") =>
        (notif.unread = call.arg /\ notif._data.unread = call.arg)

\* C6: about() returns an integer whenever the note holds a /posts/<hex>
\* reference, and otherwise what who() returns.
C6_AboutReturnsPostId ==
    (obj = "Notification" /\ call.op = "about") =>
        IF \E i \in 1..Len(notif._data.note_html) :
               AboutMatchAt(notif._data.note_html, i)
        THEN raised = "none" /\ returned.kind = "int"
        ELSE raised = "none"
                /\ returned = Value("list", WhoFindAll(notif._data.note_html, 1))

\* the entries of a user's list that name aspect a
Matching(ms, a) == {i \in 1..Len(ms) : ms[i].aspect = a}
\* the list without its i-th entry
Without(ms, i) == SubSeq(ms, 1, i - 1) \o SubSeq(ms, i + 1, Len(ms))

\* C7: removeUser(user) with no entry of this aspect in the user's list
\* raises UserIsNotMemberOfAspect and sends nothing; a 404 or another non-200
\* answer to the DELETE raises AspectError; in these outcomes the user's data
\* is unchanged; on 200 the first entry of this aspect leaves the list of the
\* user's shape, every other entry stays, in order, and nothing else of the
\* user's data changes.
C7_RemoveUserFrame ==
    [][(obj = "Aspect" /\ call'.op = "removeUser") =>
        LET ms == IF user.data.hasContact THEN user.data.contact_aspect_memberships
                  ELSE user.data.aspect_memberships
            hit == Matching(ms, aspect.id)
        IN  IF hit = {}
            THEN raised' = "UserIsNotMemberOfAspect" /\ sent' = <<>> /\ user' = user
            ELSE LET i == CHOOSE k \in hit : \A j \in hit : k <= j
                 IN  /\ Len(sent') = 1
                     /\ sent'[1].verb = "DELETE"
                     /\ sent'[1].url = <<"aspect_memberships/", Str(ms[i].id)>>
                     /\ recv'[1].status = 404 =>
                            (raised' = "AspectError: probably tried too fast"
                                /\ user' = user)
                     /\ recv'[1].status \notin {200, 404} =>
                            (raised' = "AspectError: cannot remove" /\ user' = user)
                     /\ recv'[1].status = 200 =>
                            user' = [data |-> UserData(user.data.hasContact,
                                                       Without(ms, i))]
      ]_vars

\* a User (contact shape) leaves the aspect and keeps another membership
C7_Witness ==
    /\ obj = "Aspect"
    /\ call.op = "removeUser"
    /\ raised = "none"
    /\ recv[1].status = 200
    /\ user.data.hasContact
    /\ Len(user.data.contact_aspect_memberships) = 1
    /\ Matching(user.data.contact_aspect_memberships, aspect.id) = {}

\* the request carries the connection's token
CarriesToken(req) ==
    \/ req.tokenFrom # None
    \/ <<"authenticity_token", Token>> \in req.data
    \/ <<"x-csrf-token", Token>> \in req.headers

\* C8: every POST, PUT and DELETE of Aspect, Notification, Conversation and
\* Post carries the connection's token: through tokenFrom, as the
\* authenticity_token data field or as the x-csrf-token header.
C8_MutatingRequestsCarryToken ==
    \A req \in Sent : req.verb \in {"POST", "PUT", "DELETE"} => CarriesToken(req)

\* C9: Conversation.delete() sends one DELETE to
\* conversations/{id}/visibility/, returns normally exactly when the answer
\* is 404, raises ConversationError on every other status, and leaves the
\* conversation as it was.
C9_DeleteSucceedsOn404Only ==
    [][(obj = "Conversation" /\ call'.op = "delete") =>
        /\ Len(sent') = 1
        /\ sent'[1].verb = "DELETE"
        /\ sent'[1].url = <<"conversations/", Str(conv.id), "/visibility/">>
        /\ raised' = "none" <=> recv'[1].status = 404
        /\ recv'[1].status # 404 => raised' = "ConversationError"
        /\ conv' = conv
      ]_vars

\* a deletion the pod answers with 404
C9_Witness ==
    /\ obj = "Conversation"
    /\ call.op = "delete"
    /\ raised = "none"
    /\ recv[1].status = 404
    /\ conv._data # EmptyConversation

\* the data GET of the operation that just ended, and its answer
FetchedBy(ops) == obj' \in {"Post", "dead"} /\ call'.op \in ops
    /\ sent' # <<>> /\ IsDataGet(sent'[1])

\* C10 as claimed: _fetchdata addresses posts/{x}.json with x the id whenever
\* an id is present, the guid only when there is no id; a non-200 answer
\* raises PostError and leaves the data, a 200 answer replaces the data by
\* the body.
C10_FetchByIdFirst ==
    [][/\ FetchedBy({"Post", "update", "fetch"}) =>
            /\ sent'[1].url[2] = IF post'.id # 0 THEN Str(post'.id) ELSE post'.guid
            /\ recv'[1].status # 200 => raised' = "PostError"
            /\ recv'[1].status = 200 => post'._data = recv'[1].body
       /\ FetchedBy({"update", "fetch"}) =>
            (recv'[1].status # 200 => post'._data = post._data)
      ]_vars

\* C10, amended: x is the guid whenever a guid is present (also when both id
\* and guid were given), the id only when there is no guid; a non-200 answer
\* raises PostError and leaves the data, a 200 answer replaces the data by
\* the body.
C10_FetchByGuidFirst ==
    [][/\ FetchedBy({"Post", "update", "fetch"}) =>
            /\ sent'[1].url[2] = IF post'.guid # "" THEN post'.guid ELSE Str(post'.id)
            /\ recv'[1].status # 200 => raised' = "PostError"
            /\ recv'[1].status = 200 => post'._data = recv'[1].body
       /\ FetchedBy({"update", "fetch"}) =>
            (recv'[1].status # 200 => post'._data = post._data)
      ]_vars

\* a post given both id and guid fetches its data
C10_Witness ==
    /\ obj = "Post"
    /\ call.op = "fetch"
    /\ post.id # 0
    /\ post.guid # ""
    /\ raised = "none"
    /\ IsDataGet(sent[1])
    /\ sent[1].url[2] = post.guid
    /\ post._data = recv[1].body

\* a call of a bulk operation on a container whose backing store is None
OnUninitialized(op) == obj = "Comments" /\ cmts._comments.none /\ call'.op = op

\* C11 as claimed: on a Comments container that was never initialized, each
\* of add(comment), set(comments) and set_json(json_comments) is a silent
\* no-op for every argument: nothing is raised and the container stays
\* uninitialized and empty (falsy, iterating nothing).
C11_BulkOpsNoOpWhenUninitialized ==
    [][\A op \in {"add", "set", "set_json"} :
          OnUninitialized(op) =>
            /\ raised' = "none"
            /\ cmts' = cmts
            /\ ~CommentsBool(cmts')
            /\ CommentsIter(cmts') = <<>>
      ]_vars

\* C11, amended: on a Comments container that was never initialized none of
\* the three raises; add(comment) is a no-op for every argument; set(comments)
\* and set_json(json_comments) are no-ops only for a falsy argument (None or
\* an empty list), and with a non-empty list they initialize the container:
\* set stores the given list, set_json the Comment objects built from the
\* raw items, in order.
C11_OnlyAddNoOpWhenUninitialized ==
    [][/\ OnUninitialized("add") =>
            /\ raised' = "none"
            /\ cmts' = cmts
            /\ ~CommentsBool(cmts')
            /\ CommentsIter(cmts') = <<>>
       /\ OnUninitialized("set") =>
            /\ raised' = "none"
            /\ IF Truthy(call'.arg)
               THEN cmts'._comments = call'.arg /\ CommentsBool(cmts')
               ELSE cmts' = cmts /\ CommentsIter(cmts') = <<>>
       /\ OnUninitialized("set_json") =>
            /\ raised' = "none"
            /\ IF Truthy(call'.arg)
               THEN /\ CommentsIter(cmts') = CommentList(call'.arg.list)
                    /\ CommentsBool(cmts')
               ELSE cmts' = cmts /\ CommentsIter(cmts') = <<>>
      ]_vars

\* add() of a Comment object has just returned on a container that is still
\* uninitialized
C11_Witness ==
    /\ obj = "Comments"
    /\ call.op = "add"
    /\ call.arg # NoResult
    /\ raised = "none"
    /\ cmts._comments.none
    /\ CommentsIter(cmts) = <<>>

\* like() has just ended on a live post
Liked == obj = "Post" /\ call'.op = "like"

\* C12 as claimed: like() succeeds only on status 201; after a successful
\* like() the local likes list is exactly the one-element list holding the
\* like object the server returned (replacing, never appending), so its
\* length is 1; on any other status PostError is raised and the likes list
\* is unchanged.
C12_LikeLeavesOneLike ==
    [][Liked =>
        /\ raised' = "none" => recv'[1].status = 201
        /\ raised' = "none" =>
              /\ post'._data.likes = <<recv'[1].body>>
              /\ Len(post'._data.likes) = 1
        /\ recv'[1].status # 201 =>
              /\ raised' = "PostError"
              /\ post'._data.likes = post._data.likes
      ]_vars

\* C12, amended: like() returns only on status 201, and returns the parsed
\* body.  When that body is a non-empty like object the local likes list
\* becomes exactly the one-element list holding it (replacing, never
\* appending); when the body is a falsy JSON value the likes list is left as
\* it was, whatever its length.  On any other status PostError is raised and
\* the likes list is unchanged.  Nothing else of the post changes.
C12_LikeReplacesWhenBodyNonEmpty ==
    [][Liked =>
        /\ raised' = "none" =>
              /\ recv'[1].status = 201
              /\ returned' = Value("json", recv'[1].body)
              /\ IF recv'[1].body # 0
                 THEN /\ post' = [post EXCEPT !._data.likes = <<recv'[1].body>>]
                      /\ Len(post'._data.likes) = 1
                 ELSE post' = post
        /\ recv'[1].status = 201 => raised' = "none"
        /\ recv'[1].status # 201 =>
              /\ raised' = "PostError"
              /\ post' = post
      ]_vars

\* a like() answered 201 with a like object, which is now the only like held
C12_Witness ==
    /\ obj = "Post"
    /\ call.op = "like"
    /\ raised = "none"
    /\ recv[1].status = 201
    /\ recv[1].body # 0
    /\ post._data.likes = <<recv[1].body>>
    /\ returned = Value("json", recv[1].body)

====
